---- MODULE Spec2Model ----
(***************************************************************************)
(* Checkout-payment integration: the three request handlers of the payment *)
(* blueprint (POST /process, GET /payment-result, POST /webhook) and the   *)
(* PayOS client they use, as a state machine over one persisted order, the *)
(* users' carts and the handlers in flight.  A handler is a sequence of    *)
(* steps (look the order up, commit, clear the cart, answer); steps of     *)
(* different requests interleave.                                          *)
(***************************************************************************)
EXTENDS Integers, Sequences, FiniteSets, TLC

\* ------------------------------------------------------------------ bounds

\* Number of distinct provider transaction references a notification may carry.
MaxTx == 1
\* Line items in each user's cart when the order is created.
CartSize == 1

\* --------------------------------------------------------------- the world

Users == {"u1", "u2"}
Anonymous == "anon"
Sessions == Users \cup {Anonymous}

\* The order store holds one order, id 1, placed by u1; id 2 names no order.
OrderIds == {1}
OrderOwner == [i \in OrderIds |-> "u1"]

\* Values a request may carry as its order reference: "" is an absent or
\* empty field, "abc" is not a number.
OrderRefs == {"", "1", "2", "abc"}

\* int(x) of routes/payment.py lines 114 and 169 and services/payment.py line 36.
IsNumeric(ref) == ref \in {"1", "2"}
IntOf(ref) == IF ref = "1" THEN 1 ELSE 2

\* payment_id values: None (never set), '' (the redirect's default), or a
\* provider transaction reference.
NoneTx == <<"None">>
EmptyTx == <<"">>
TxRefs == {<<"tx", i>> : i \in 1..MaxTx}

NotifyStatuses == {"success", "failed", "cancel", "unknown"}

\* The keys a webhook sender may have signed its body with; "none" is a body
\* that carries no signature.
SecretKey == "secret"
SenderKeys == {SecretKey, "attacker", "none"}

\* What the provider's endpoint does with a create-payment request.
ProviderOutcomes ==
    {"ok", "declined", "http_error", "no_desc", "unreachable", "timeout", "bad_json", "no_data"}

VARIABLES
    configured,  \* PAYOS_API_KEY, PAYOS_CLIENT_ID and PAYOS_SECRET_KEY are all set
    orders,      \* the Order rows: status, payment_method, payment_id
    cart,        \* line items in each user's cart
    paidBy,      \* history: the handler kind that moved the order into PAID
    slot,        \* the handlers in flight
    last,        \* the request that arrived or was answered in the last step
    call         \* the call of a PayOSAPI method made in the last step, with its outcome

vars == <<configured, orders, cart, paidBy, slot, last, call>>

Slots == {"s1", "s2"}

IdleSlot ==
    [pc |-> "idle", caller |-> "-", tx |-> NoneTx, status |-> "-"]

\* `last` when the step was internal to a handler (no arrival, no answer).
NoEvent ==
    [op |-> "none", caller |-> "-", ref |-> "-", status |-> "-", tx |-> NoneTx,
     method |-> "-", key |-> "-", code |-> 0, msg |-> "-", redirect |-> FALSE,
     flash |-> "-", provider |-> FALSE]

\* `call` when the step called no method of the client.
NoCall ==
    [method |-> "none", secret |-> "-", order_id |-> "-", amountIsNumber |-> TRUE,
     outcome |-> "-", data |-> "-", raised |-> FALSE, success |-> FALSE, error |-> "-",
     signature |-> <<"-">>, sent |-> FALSE]

Event(fields) == [f \in DOMAIN NoEvent |-> IF f \in DOMAIN fields THEN fields[f] ELSE NoEvent[f]]

\* --------------------------------------------------- the order and cart stores

\* Order.query.get(int(ref)): the ids of the rows the lookup returns.
FindOrder(ref) == {i \in OrderIds : IsNumeric(ref) /\ IntOf(ref) = i}

\* Mutant of FindOwnedOrder: the lookup filters on the id alone.
FindOwnedOrder_AnyUser(ref, user) == FindOrder(ref)

\* Order.query.filter_by(id=order_id, user_id=current_user.id).first()
FindOwnedOrder(ref, user) == {i \in FindOrder(ref) : OrderOwner[i] = user}

\* Cart.clear_cart(user_id): every line item of the user's cart is removed.
ClearCart(c, user) == [c EXCEPT ![user] = 0]

\* order.payment_method = 'payos'
PayosUpdate(o) == [o EXCEPT !.payment_method = "payos"]

\* Mutant of CodUpdate: the status assignment is missing.
CodUpdate_KeepsStatus(o) == [o EXCEPT !.payment_method = "cod"]

\* order.payment_method = 'cod'; order.status = OrderStatus.PROCESSING
CodUpdate(o) == [o EXCEPT !.payment_method = "cod", !.status = "PROCESSING"]

\* payment_result, status == 'success': order.status = PAID; order.payment_id = transaction_id
ResultUpdate(o, tx) == [o EXCEPT !.status = "PAID", !.payment_id = tx]

\* Mutant of WebhookUpdate: the success branch does not store the transactionId.
WebhookUpdate_DropsTx(o, status, tx) ==
    IF status = "success" THEN [o EXCEPT !.status = "PAID"]
    ELSE IF status \in {"failed", "cancel"} THEN [o EXCEPT !.status = "CANCELLED"]
    ELSE o

\* webhook: the writes the handler makes to the order for a notified status.
WebhookUpdate(o, status, tx) ==
    IF status = "success" THEN [o EXCEPT !.status = "PAID", !.payment_id = tx]
    ELSE IF status \in {"failed", "cancel"} THEN [o EXCEPT !.status = "CANCELLED"]
    ELSE o

\* History of who moved the order into PAID, kept across rewrites of PAID.
PaidByAfter(old, new, kind, by) ==
    IF new.status # "PAID" THEN "none"
    ELSE IF old.status = "PAID" THEN by ELSE kind

\* ------------------------------------------------------------ the PayOS client

\* PayOSAPI.__init__ raises ValueError when a credential is missing, so
\* get_payos_api() returns a client only in a configured deployment.
ClientAvailable == configured

\* HMAC-SHA256 as an ideal keyed function of the canonical payload.
Sign(key, payload) == <<"hmac", key, payload>>

\* verify_webhook(payload): the signature the sender attached against the one
\* recomputed with the checksum key; a body without signature does not verify.
VerifyWebhook(key, payload) == key # "none" /\ Sign(key, payload) = Sign(SecretKey, payload)

\* create_payment(order_id, amount, description): the result value.
CreatePayment(order_id, amountIsNumber, outcome) ==
    IF ~amountIsNumber \/ ~IsNumeric(order_id)
        THEN [success |-> FALSE, error |-> "Exception"]
    ELSE IF outcome \in {"unreachable", "timeout", "bad_json"}
        THEN [success |-> FALSE, error |-> "Exception"]
    ELSE IF outcome = "ok"
        THEN [success |-> TRUE, error |-> "-"]
    ELSE IF outcome = "no_data"
        THEN [success |-> FALSE, error |-> "Exception"]
    ELSE IF outcome = "no_desc"
        THEN [success |-> FALSE, error |-> "None"]
    ELSE [success |-> FALSE, error |-> "desc"]

\* The values self.checksum_key can hold: the configured secret, the empty
\* string and None.
ChecksumKeys == {SecretKey, "", "None"}

\* `not self.checksum_key`
Missing(key) == key \in {"", "None"}

NoSignature == <<"-">>
EmptySignature == <<"">>

\* PayOSAPI(): the exception the constructor raises, "-" when it returns a client.
PayOSInit(hasApiKey, hasClientId, key) ==
    IF ~hasApiKey THEN "ValueError: Missing PAYOS_API_KEY"
    ELSE IF ~hasClientId THEN "ValueError: Missing PAYOS_CLIENT_ID"
    ELSE IF Missing(key) THEN "ValueError: Missing PAYOS_SECRET_KEY"
    ELSE "-"

\* What _create_signature is given to serialise.
SignData == {"payload", "unserializable"}

\* _create_signature(data) of a client whose checksum_key is `key`: the
\* string it returns.
CreateSignature(key, data) ==
    IF Missing(key) THEN EmptySignature
    ELSE IF data = "unserializable" THEN EmptySignature
    ELSE Sign(key, data)

\* Mutant of CreatePaymentCall: the conversions of amount and order_id stand
\* before the try block.
CreatePaymentCall_ConvertsOutsideTry(key, order_id, amountIsNumber, outcome) ==
    LET result == CreatePayment(order_id, amountIsNumber, outcome) IN
    IF ~amountIsNumber \/ ~IsNumeric(order_id)
        THEN [raised |-> TRUE, success |-> FALSE, error |-> "-",
              signature |-> NoSignature, sent |-> FALSE]
    ELSE IF key = "None"
        THEN [raised |-> FALSE, success |-> FALSE, error |-> "Exception",
              signature |-> NoSignature, sent |-> FALSE]
    ELSE [raised |-> FALSE, success |-> result.success, error |-> result.error,
          signature |-> Sign(key, order_id), sent |-> TRUE]

\* create_payment of a client whose checksum_key is `key`, with what happens
\* on the way: whether an exception leaves the method, the signature computed
\* for the request and whether the request was sent with it.
CreatePaymentCall(key, order_id, amountIsNumber, outcome) ==
    LET result == CreatePayment(order_id, amountIsNumber, outcome) IN
    IF ~amountIsNumber \/ ~IsNumeric(order_id)
        THEN [raised |-> FALSE, success |-> FALSE, error |-> result.error,
              signature |-> NoSignature, sent |-> FALSE]
    ELSE IF key = "None"
        THEN [raised |-> FALSE, success |-> FALSE, error |-> "Exception",
              signature |-> NoSignature, sent |-> FALSE]
    ELSE [raised |-> FALSE, success |-> result.success, error |-> result.error,
          signature |-> Sign(key, order_id), sent |-> TRUE]

\* -------------------------------------------------------------- POST /process

ProcessRefs == {"", "1", "2"}
PaymentMethods == {"payos", "cod", "other"}

\* The answer process_payment gives before it touches the order or the
\* provider, as <<code, error>>; <<0, "-">> when it goes on.
ProcessCheck(caller, ref, method) ==
    IF ref = "" THEN <<400, "Missing order ID">>
    ELSE IF FindOwnedOrder(ref, caller) = {} THEN <<404, "Order not found">>
    ELSE IF method = "payos"
        THEN (IF ClientAvailable THEN <<0, "-">>
              ELSE <<500, "An error occurred while processing your payment">>)
    ELSE IF method = "cod" THEN <<0, "-">>
    ELSE <<400, "Invalid payment method">>

\* A request that is answered at once: no order id, no such order of the
\* caller, an unknown method, or no client to pay with.
ProcessReject(caller, ref, method) ==
    LET chk == ProcessCheck(caller, ref, method) IN
    /\ chk[1] # 0
    /\ last' = Event([op |-> "process", caller |-> caller, ref |-> ref,
                      method |-> method, code |-> chk[1], msg |-> chk[2]])
    /\ UNCHANGED <<call, configured, orders, cart, paidBy, slot>>

\* The order is the caller's: the handler goes on to the provider or to the
\* cash-on-delivery update.
ProcessBegin(s, caller, ref, method) ==
    /\ slot[s].pc = "idle"
    /\ ProcessCheck(caller, ref, method)[1] = 0
    /\ slot' = [slot EXCEPT ![s] =
                  [IdleSlot EXCEPT !.pc = IF method = "payos" THEN "p_call" ELSE "p_cod_commit",
                                   !.caller = caller]]
    /\ last' = Event([op |-> "process", caller |-> caller, ref |-> ref, method |-> method])
    /\ UNCHANGED <<call, configured, orders, cart, paidBy>>

\* Mutant of ProcessProviderCall: payment_method is written before the
\* result of create_payment is looked at.
ProcessProviderCall_WritesFirst(s, outcome) ==
    LET result == CreatePayment("1", TRUE, outcome) IN
    /\ slot[s].pc = "p_call"
    /\ orders' = [orders EXCEPT ![1] = PayosUpdate(orders[1])]
    /\ IF result.success
         THEN /\ slot' = [slot EXCEPT ![s].pc = "p_payos_commit"]
              /\ last' = NoEvent
         ELSE /\ slot' = [slot EXCEPT ![s] = IdleSlot]
              /\ last' = Event([op |-> "process", caller |-> slot[s].caller, ref |-> "1",
                                method |-> "payos", code |-> 400, msg |-> result.error,
                                provider |-> TRUE])
    /\ UNCHANGED <<call, configured, cart, paidBy>>

\* api.create_payment(str(order_id), amount, description) and the branch on
\* its result.
ProcessProviderCall(s, outcome) ==
    LET result == CreatePayment("1", TRUE, outcome) IN
    /\ slot[s].pc = "p_call"
    /\ IF result.success
         THEN /\ slot' = [slot EXCEPT ![s].pc = "p_payos_commit"]
              /\ last' = NoEvent
         ELSE /\ slot' = [slot EXCEPT ![s] = IdleSlot]
              /\ last' = Event([op |-> "process", caller |-> slot[s].caller, ref |-> "1",
                                method |-> "payos", code |-> 400, msg |-> result.error,
                                provider |-> TRUE])
    /\ UNCHANGED <<call, configured, orders, cart, paidBy>>

\* order.payment_method = 'payos'; db.session.commit(); the redirect answer.
ProcessPayosCommit(s) ==
    /\ slot[s].pc = "p_payos_commit"
    /\ orders' = [orders EXCEPT ![1] = PayosUpdate(orders[1])]
    /\ slot' = [slot EXCEPT ![s] = IdleSlot]
    /\ last' = Event([op |-> "process", caller |-> slot[s].caller, ref |-> "1",
                      method |-> "payos", code |-> 200, msg |-> "-", redirect |-> TRUE,
                      provider |-> TRUE])
    /\ UNCHANGED <<call, configured, cart, paidBy>>

\* order.payment_method = 'cod'; order.status = PROCESSING; db.session.commit()
ProcessCodCommit(s) ==
    /\ slot[s].pc = "p_cod_commit"
    /\ orders' = [orders EXCEPT ![1] = CodUpdate(orders[1])]
    /\ paidBy' = PaidByAfter(orders[1], orders'[1], "process", paidBy)
    /\ slot' = [slot EXCEPT ![s].pc = "p_cod_clear"]
    /\ last' = NoEvent
    /\ UNCHANGED <<call, configured, cart>>

\* Cart.clear_cart(current_user.id) and the answer of the cash-on-delivery path.
ProcessCodClear(s) ==
    /\ slot[s].pc = "p_cod_clear"
    /\ cart' = ClearCart(cart, slot[s].caller)
    /\ slot' = [slot EXCEPT ![s] = IdleSlot]
    /\ last' = Event([op |-> "process", caller |-> slot[s].caller, ref |-> "1",
                      method |-> "cod", code |-> 200, msg |-> "-", redirect |-> FALSE])
    /\ UNCHANGED <<call, configured, orders, paidBy>>

\* ------------------------------------------------------- GET /payment-result

ResultRefs == {"", "1", "2"}
ResultTxs == TxRefs \cup {EmptyTx}
\* The transactionId a redirect of the given status carries: the provider
\* appends a reference to a success redirect; without one the handler reads ''.
ResultTxsOf(status) == IF status = "success" THEN ResultTxs ELSE {EmptyTx}

\* The status parameter of a redirect: one of the notified statuses, or left out.
ResultStatusParams == NotifyStatuses \cup {"absent"}

\* request.args.get('status', 'unknown')
ResultStatus(param) == IF param = "absent" THEN "unknown" ELSE param

\* Mutant of ResultWrites: everything but a reported failure counts as paid.
ResultWrites_UnlessFailure(status) == status \notin {"failed", "cancel"}

\* if status == 'success': the branch of payment_result that writes the order.
ResultWrites(status) == status = "success"

\* current_user.is_authenticated and current_user.id == order.user_id
IsOwnerSession(caller, order) == caller # Anonymous /\ caller = OrderOwner[order]

\* The flash message payment_result adds for an order it found.
ResultFlash(caller, order, status) ==
    IF status = "success"
        THEN (IF IsOwnerSession(caller, order) THEN "success" ELSE "-")
    ELSE IF status = "cancel" THEN "warning"
    ELSE "error"

\* The answer of payment_result: a redirect for the owner's session, else the
\* rendered result page.
ResultAnswer(caller, ref, status, tx, found, flash) ==
    Event([op |-> "result", caller |-> caller, ref |-> ref, status |-> status, tx |-> tx,
           code |-> IF found /\ IsOwnerSession(caller, 1) THEN 302 ELSE 200,
           msg |-> IF found /\ IsOwnerSession(caller, 1)
                     THEN (IF status = "success" THEN "orders.order_detail" ELSE "cart.checkout")
                     ELSE "payment/result.html",
           redirect |-> found /\ IsOwnerSession(caller, 1),
           flash |-> flash])

\* No orderCode, or one that names no order: the result page.
ResultRender(caller, ref, status, tx) ==
    /\ ref = "" \/ FindOrder(ref) = {}
    /\ last' = ResultAnswer(caller, ref, status, tx, FALSE, "-")
    /\ UNCHANGED <<call, configured, orders, cart, paidBy, slot>>

\* An order was found and the status is not 'success': flash, and redirect
\* the owner to the checkout.
ResultFailed(caller, ref, status, tx) ==
    /\ ref # "" /\ FindOrder(ref) # {}
    /\ ~ResultWrites(status)
    /\ last' = ResultAnswer(caller, ref, status, tx, TRUE, ResultFlash(caller, 1, status))
    /\ UNCHANGED <<call, configured, orders, cart, paidBy, slot>>

\* An order was found and the status is 'success': the handler goes on to
\* write the order.
ResultBegin(s, caller, ref, status, tx) ==
    /\ slot[s].pc = "idle"
    /\ ref # "" /\ FindOrder(ref) # {}
    /\ ResultWrites(status)
    /\ slot' = [slot EXCEPT ![s] =
                  [IdleSlot EXCEPT !.pc = "r_commit", !.caller = caller, !.tx = tx,
                                   !.status = status]]
    /\ last' = Event([op |-> "result", caller |-> caller, ref |-> ref,
                      status |-> status, tx |-> tx])
    /\ UNCHANGED <<call, configured, orders, cart, paidBy>>

\* order.status = PAID; order.payment_id = transaction_id; db.session.commit()
ResultCommit(s) ==
    /\ slot[s].pc = "r_commit"
    /\ orders' = [orders EXCEPT ![1] = ResultUpdate(orders[1], slot[s].tx)]
    /\ paidBy' = PaidByAfter(orders[1], orders'[1], "result", paidBy)
    /\ slot' = [slot EXCEPT ![s].pc = "r_clear"]
    /\ last' = NoEvent
    /\ UNCHANGED <<call, configured, cart>>

\* Cart.clear_cart(order.user_id), then the flash and redirect of the owner.
ResultClear(s) ==
    /\ slot[s].pc = "r_clear"
    /\ cart' = ClearCart(cart, OrderOwner[1])
    /\ slot' = [slot EXCEPT ![s] = IdleSlot]
    /\ last' = ResultAnswer(slot[s].caller, "1", slot[s].status, slot[s].tx, TRUE,
                            ResultFlash(slot[s].caller, 1, "success"))
    /\ UNCHANGED <<call, configured, orders, paidBy>>

\* -------------------------------------------------------------- POST /webhook

WebhookStatuses == NotifyStatuses \cup {""}
WebhookTxs == TxRefs \cup {NoneTx}
\* The transactionId a notification of the given status carries.
WebhookTxsOf(status) == IF status = "success" THEN WebhookTxs ELSE {NoneTx}

\* Mutant of WebhookCheck: an orderCode that names no order is answered like a
\* missing field.
WebhookCheck_NotFoundIs400(empty, key, ref, status, tx) ==
    IF empty THEN <<400, "No data received">>
    ELSE IF ~ClientAvailable THEN <<500, "Error processing webhook">>
    ELSE IF ~VerifyWebhook(key, <<ref, status, tx>>) THEN <<400, "Invalid signature">>
    ELSE IF ref = "" \/ status = "" THEN <<400, "Missing required fields">>
    ELSE IF ~IsNumeric(ref) THEN <<500, "Error processing webhook">>
    ELSE IF FindOrder(ref) = {} THEN <<400, "Missing required fields">>
    ELSE <<0, "-">>

\* Mutant of WebhookCheck: the signature is not verified.
WebhookCheck_NoVerify(empty, key, ref, status, tx) ==
    IF empty THEN <<400, "No data received">>
    ELSE IF ~ClientAvailable THEN <<500, "Error processing webhook">>
    ELSE IF ref = "" \/ status = "" THEN <<400, "Missing required fields">>
    ELSE IF ~IsNumeric(ref) THEN <<500, "Error processing webhook">>
    ELSE IF FindOrder(ref) = {} THEN <<404, "Order not found">>
    ELSE <<0, "-">>

\* The answer webhook gives before it touches the order, as <<code, message>>;
\* <<0, "-">> when it goes on.
WebhookCheck(empty, key, ref, status, tx) ==
    IF empty THEN <<400, "No data received">>
    ELSE IF ~ClientAvailable THEN <<500, "Error processing webhook">>
    ELSE IF ~VerifyWebhook(key, <<ref, status, tx>>) THEN <<400, "Invalid signature">>
    ELSE IF ref = "" \/ status = "" THEN <<400, "Missing required fields">>
    ELSE IF ~IsNumeric(ref) THEN <<500, "Error processing webhook">>
    ELSE IF FindOrder(ref) = {} THEN <<404, "Order not found">>
    ELSE <<0, "-">>

\* A webhook that is answered at once: an empty body, no client, a signature
\* that does not verify, a missing field, or no such order.
WebhookReject(empty, key, ref, status, tx) ==
    LET chk == WebhookCheck(empty, key, ref, status, tx) IN
    /\ chk[1] # 0
    /\ last' = Event([op |-> "webhook", key |-> IF empty THEN "empty" ELSE key, ref |-> ref,
                      status |-> status, tx |-> tx, code |-> chk[1], msg |-> chk[2]])
    /\ UNCHANGED <<call, configured, orders, cart, paidBy, slot>>

\* A verified notification whose status is none of success, failed, cancel:
\* acknowledged, nothing written.
WebhookIgnore(key, ref, status, tx) ==
    /\ WebhookCheck(FALSE, key, ref, status, tx)[1] = 0
    /\ status \notin {"success", "failed", "cancel"}
    /\ last' = Event([op |-> "webhook", key |-> key, ref |-> ref, status |-> status,
                      code |-> 200, msg |-> "Webhook processed successfully"])
    /\ UNCHANGED <<call, configured, orders, cart, paidBy, slot>>

\* A verified notification of success, failure or cancellation for an order
\* that exists: the handler goes on to its writes.
WebhookBegin(s, key, ref, status, tx) ==
    /\ slot[s].pc = "idle"
    /\ WebhookCheck(FALSE, key, ref, status, tx)[1] = 0
    /\ status \in {"success", "failed", "cancel"}
    /\ slot' = [slot EXCEPT ![s] =
                  [IdleSlot EXCEPT !.pc = IF status = "success" THEN "w_clear" ELSE "w_commit",
                                   !.status = status,
                                   !.tx = tx]]
    /\ last' = Event([op |-> "webhook", key |-> key, ref |-> ref, status |-> status,
                      tx |-> tx])
    /\ UNCHANGED <<call, configured, orders, cart, paidBy>>

\* status == 'success': Cart.clear_cart(order.user_id), before the commit.
WebhookClear(s) ==
    /\ slot[s].pc = "w_clear"
    /\ cart' = ClearCart(cart, OrderOwner[1])
    /\ slot' = [slot EXCEPT ![s].pc = "w_commit"]
    /\ last' = NoEvent
    /\ UNCHANGED <<call, configured, orders, paidBy>>

\* db.session.commit() of the webhook's writes, and the acknowledgment.
WebhookCommit(s) ==
    /\ slot[s].pc = "w_commit"
    /\ orders' = [orders EXCEPT ![1] = WebhookUpdate(orders[1], slot[s].status, slot[s].tx)]
    /\ paidBy' = PaidByAfter(orders[1], orders'[1], "webhook", paidBy)
    /\ slot' = [slot EXCEPT ![s] = IdleSlot]
    /\ last' = Event([op |-> "webhook", key |-> SecretKey, ref |-> "1",
                      status |-> slot[s].status, tx |-> slot[s].tx,
                      code |-> 200, msg |-> "Webhook processed successfully"])
    /\ UNCHANGED <<call, configured, cart>>

\* ------------------------------------------------------------ specification

NewOrder == [status |-> "CREATED", payment_method |-> "None", payment_id |-> NoneTx]

\* The shape of the state: the Order row, the carts, the handlers in flight.
TypeOK ==
    /\ configured \in BOOLEAN
    /\ orders \in [OrderIds -> [status : {"CREATED", "PROCESSING", "PAID", "CANCELLED"},
                               payment_method : {"None", "payos", "cod"},
                               payment_id : {NoneTx, EmptyTx} \cup TxRefs]]
    /\ cart \in [Users -> 0..CartSize]
    /\ paidBy \in {"none", "result", "webhook"}
    /\ \A s \in Slots :
          /\ slot[s].pc \in {"idle", "p_call", "p_payos_commit", "p_cod_commit", "p_cod_clear",
                              "r_commit", "r_clear", "w_clear", "w_commit"}
          /\ slot[s].caller \in Sessions \cup {"-"}
          /\ slot[s].tx \in {NoneTx, EmptyTx} \cup TxRefs
          /\ slot[s].status \in {"-", "success", "failed", "cancel"}
    /\ last.op \in {"none", "process", "result", "webhook"}
    /\ last.code \in {0, 200, 302, 400, 404, 500}
    /\ call.method \in {"none", "__init__", "create_payment", "_create_signature"}

Init ==
    /\ configured \in BOOLEAN
    /\ orders = [i \in OrderIds |-> NewOrder]
    /\ cart = [u \in Users |-> CartSize]
    /\ paidBy = "none"
    /\ slot = [s \in Slots |-> IdleSlot]
    /\ last = NoEvent
    /\ call = NoCall

\* No handler is in flight.  A request that is answered in one step reads
\* only the request, the configuration and which orders exist, and writes
\* nothing, so it commutes with every step of a handler in flight: Next takes
\* such requests between handlers only.
Quiescent == \A s \in Slots : slot[s].pc = "idle"

Next ==
    \/ /\ Quiescent
       /\ \E c \in Users, r \in ProcessRefs, m \in PaymentMethods : ProcessReject(c, r, m)
    \/ \E s \in Slots, c \in Users, r \in ProcessRefs, m \in PaymentMethods :
          ProcessBegin(s, c, r, m)
    \/ \E s \in Slots, o \in ProviderOutcomes : ProcessProviderCall(s, o)
    \/ \E s \in Slots : ProcessPayosCommit(s)
    \/ \E s \in Slots : ProcessCodCommit(s)
    \/ \E s \in Slots : ProcessCodClear(s)
    \/ /\ Quiescent
       /\ \E c \in Sessions, r \in ResultRefs, p \in ResultStatusParams :
             \E t \in ResultTxsOf(ResultStatus(p)) : ResultRender(c, r, ResultStatus(p), t)
    \/ /\ Quiescent
       /\ \E c \in Sessions, r \in ResultRefs, p \in ResultStatusParams :
             \E t \in ResultTxsOf(ResultStatus(p)) : ResultFailed(c, r, ResultStatus(p), t)
    \/ \E s \in Slots, c \in Sessions, r \in ResultRefs, p \in ResultStatusParams :
          \E t \in ResultTxsOf(ResultStatus(p)) : ResultBegin(s, c, r, ResultStatus(p), t)
    \/ \E s \in Slots : ResultCommit(s)
    \/ \E s \in Slots : ResultClear(s)
    \/ /\ Quiescent
       /\ \/ WebhookReject(TRUE, "none", "", "", NoneTx)
          \/ \E k \in SenderKeys, r \in OrderRefs, st \in WebhookStatuses : \E t \in WebhookTxsOf(st) :
                WebhookReject(FALSE, k, r, st, t)
    \/ /\ Quiescent
       /\ \E k \in SenderKeys, r \in OrderRefs, st \in WebhookStatuses : \E t \in WebhookTxsOf(st) :
             WebhookIgnore(k, r, st, t)
    \/ \E s \in Slots, k \in SenderKeys, r \in OrderRefs, st \in WebhookStatuses :
          \E t \in WebhookTxsOf(st) : WebhookBegin(s, k, r, st, t)
    \/ \E s \in Slots : WebhookClear(s)
    \/ \E s \in Slots : WebhookCommit(s)

Spec == Init /\ [][Next]_vars

\* ------------------------------------------------- the client on its own

\* PayOSAPI(): one construction, from the credentials it finds.
CallInit(hasApiKey, hasClientId, key) ==
    /\ call' = [NoCall EXCEPT !.method = "__init__",
                              !.secret = key,
                              !.data = IF hasApiKey /\ hasClientId THEN "both"
                                       ELSE IF hasApiKey THEN "api_key"
                                       ELSE IF hasClientId THEN "client_id"
                                       ELSE "neither",
                              !.raised = PayOSInit(hasApiKey, hasClientId, key) # "-",
                              !.error = PayOSInit(hasApiKey, hasClientId, key)]
    /\ UNCHANGED <<configured, orders, cart, paidBy, slot, last>>

\* client.create_payment(order_id, amount) against one behaviour of the provider.
CallCreatePayment(key, order_id, amountIsNumber, outcome) ==
    LET r == CreatePaymentCall(key, order_id, amountIsNumber, outcome) IN
    /\ call' = [NoCall EXCEPT !.method = "create_payment",
                              !.secret = key,
                              !.order_id = order_id,
                              !.amountIsNumber = amountIsNumber,
                              !.outcome = outcome,
                              !.raised = r.raised,
                              !.success = r.success,
                              !.error = r.error,
                              !.signature = r.signature,
                              !.sent = r.sent]
    /\ UNCHANGED <<configured, orders, cart, paidBy, slot, last>>

\* client._create_signature(data)
CallCreateSignature(key, data) ==
    /\ call' = [NoCall EXCEPT !.method = "_create_signature",
                              !.secret = key,
                              !.data = data,
                              !.signature = CreateSignature(key, data)]
    /\ UNCHANGED <<configured, orders, cart, paidBy, slot, last>>

ClientNext ==
    \/ \E a \in BOOLEAN, c \in BOOLEAN, k \in ChecksumKeys : CallInit(a, c, k)
    \/ \E k \in ChecksumKeys, r \in OrderRefs, n \in BOOLEAN, o \in ProviderOutcomes :
          CallCreatePayment(k, r, n, o)
    \/ \E k \in ChecksumKeys, d \in SignData : CallCreateSignature(k, d)

\* The methods of the client called with every input, whatever the handlers do.
ClientSpec == Init /\ [][ClientNext]_vars

\* ------------------------------------------------------------------ claims

Owner == OrderOwner[1]

\* Steps of a handler in flight, read off the slot it runs in.
WebhookClearStep(s) == slot[s].pc = "w_clear" /\ slot'[s].pc = "w_commit"
WebhookSuccessCommitStep(s) ==
    slot[s].pc = "w_commit" /\ slot[s].status = "success" /\ slot'[s].pc = "idle"
ResultCommitStep(s) == slot[s].pc = "r_commit" /\ slot'[s].pc = "r_clear"
ResultClearStep(s) == slot[s].pc = "r_clear" /\ slot'[s].pc = "idle"
CodCommitStep(s) == slot[s].pc = "p_cod_commit" /\ slot'[s].pc = "p_cod_clear"

\* C1: a correctly signed success webhook delivered for an order that an
\* earlier success webhook has already moved into PAID clears no cart and
\* writes nothing to the order, and is still acknowledged with success.
C1_SuccessWebhookIdempotent ==
    [][\A s \in Slots :
          (orders[1].status = "PAID" /\ paidBy = "webhook") =>
             /\ ~WebhookClearStep(s)
             /\ WebhookSuccessCommitStep(s) =>
                   (orders' = orders /\ orders'[1].status = "PAID" /\ last'.code = 200)]_vars

\* C2: when the transition attempts for the order (success and cancel
\* notifications, by webhook or redirect, interleaved step by step) have run
\* to their end and no POST /process was made, an order that ended CANCELLED
\* has the side effects of the losing success attempt undone or never made:
\* its owner's cart is untouched and its payment_id is not set.
C2_RaceLoserHasNoEffect ==
    (Quiescent /\ orders[1].payment_method = "None" /\ orders[1].status = "CANCELLED")
        => (cart[Owner] = CartSize /\ orders[1].payment_id = NoneTx)

\* C3: of a success redirect and a success webhook for the same order, the one
\* that finds the order already moved into PAID by the other short-circuits: it
\* does not clear the cart and changes neither status nor payment_id.
C3_SecondSuccessShortCircuits ==
    [][\A s \in Slots :
          /\ (orders[1].status = "PAID" /\ paidBy = "webhook") =>
                /\ ResultCommitStep(s) => orders' = orders
                /\ ~ResultClearStep(s)
          /\ (orders[1].status = "PAID" /\ paidBy = "result") =>
                /\ ~WebhookClearStep(s)
                /\ WebhookSuccessCommitStep(s) => orders' = orders]_vars

\* C4: an order whose status is PAID keeps the status PAID in every step of
\* every handler.
C4_PaidIsNeverReverted ==
    [][orders[1].status = "PAID" => orders'[1].status = "PAID"]_vars

\* C5: payment_id changes only in a step that moves the order into PAID, and
\* once it holds a value no step changes it.
C5_PaymentIdWrittenOnce ==
    [][orders'[1].payment_id # orders[1].payment_id =>
          /\ orders[1].payment_id = NoneTx
          /\ orders[1].status # "PAID" /\ orders'[1].status = "PAID"]_vars

\* C6: in a deployment whose credentials are set, the answer to a webhook
\* signed with the checksum key that names the existing order, with status
\* "success" and transactionId T, is the success acknowledgment, and when it
\* is given the order's status is PAID, its payment_id is T and the owner's
\* cart is empty.
C6_WebhookSuccess ==
    (/\ configured
     /\ last.op = "webhook" /\ last.key = SecretKey /\ last.ref = "1"
     /\ last.status = "success" /\ last.code # 0)
        => /\ last.code = 200
           /\ orders[1].status = "PAID"
           /\ orders[1].payment_id = last.tx
           /\ cart[Owner] = 0

\* C6 witness: the webhook moved the order into PAID with a provider reference.
C6_Witness ==
    /\ configured
    /\ last.op = "webhook" /\ last.key = SecretKey /\ last.status = "success"
    /\ last.code = 200 /\ last.tx \in TxRefs
    /\ paidBy = "webhook"
    /\ orders[1].status = "PAID" /\ orders[1].payment_id = last.tx /\ cart[Owner] = 0

\* C7: in a deployment whose credentials are set, a webhook with a non-empty
\* body whose signature does not verify (signed with another key, or not
\* signed) is answered 400 in the step it arrives, and that step changes no
\* order, no cart and no handler in flight.
C7_InvalidSignatureRejected ==
    [][(configured /\ last'.op = "webhook" /\ last'.key \in SenderKeys \ {SecretKey})
          => /\ last'.code = 400 /\ last'.msg = "Invalid signature"
             /\ UNCHANGED <<orders, cart, paidBy, slot>>]_vars

\* C7 witness: a forged success notification for the existing order was
\* answered 400 while the order was still CREATED and the cart still full.
C7_Witness ==
    /\ configured
    /\ last.op = "webhook" /\ last.key = "attacker" /\ last.ref = "1"
    /\ last.status = "success" /\ last.code = 400
    /\ orders[1].status = "CREATED" /\ cart[Owner] = CartSize

\* C8: POST /process by an authenticated user for the existing order of
\* another user is answered 404 in the step it arrives, whatever the payment
\* method; that step changes no order and no cart, starts no handler and makes
\* no provider call.
C8_ProcessOfForeignOrderIs404 ==
    [][(last'.op = "process" /\ last'.ref = "1" /\ last'.caller # Owner)
          => /\ last'.code = 404
             /\ ~last'.provider
             /\ UNCHANGED <<orders, cart, paidBy, slot>>]_vars

\* C8 witness: u2 asked to pay cash on delivery for u1's order and got 404.
C8_Witness ==
    /\ last.op = "process" /\ last.ref = "1" /\ last.caller = "u2" /\ last.method = "cod"
    /\ last.code = 404
    /\ cart["u2"] = CartSize /\ orders[1].status = "CREATED"

\* C9: the cash-on-delivery path of POST /process by the order's owner: its
\* commit step leaves the order PROCESSING with payment_method cod, and its
\* answer is {success, requires_redirect: false}, given without a provider
\* call and with the owner's cart empty.
C9_CashOnDelivery ==
    [][/\ \A s \in Slots :
             CodCommitStep(s) =>
                (orders'[1].status = "PROCESSING" /\ orders'[1].payment_method = "cod")
       /\ (/\ last'.op = "process" /\ last'.method = "cod" /\ last'.ref = "1"
           /\ last'.caller = Owner /\ last'.code # 0)
             => /\ last'.code = 200 /\ ~last'.redirect /\ ~last'.provider
                /\ cart'[Owner] = 0]_vars

\* C9 witness: the owner's cash-on-delivery request for the CREATED order was
\* answered; the order is PROCESSING and the cart empty.
C9_Witness ==
    /\ last.op = "process" /\ last.method = "cod" /\ last.code = 200 /\ ~last.redirect
    /\ orders[1].status = "PROCESSING" /\ orders[1].payment_method = "cod"
    /\ orders[1].payment_id = NoneTx /\ cart[Owner] = 0

\* C10: on the provider path of POST /process, no step up to and including
\* the answer to a failed create_payment changes the order or a cart, and that
\* answer is 400 with the error of the create_payment result.
C10_FailedCreationLeavesOrder ==
    [][/\ (last'.op = "process" /\ last'.method = "payos" /\ last'.provider
           /\ last'.code # 200)
             => /\ last'.code = 400 /\ last'.msg \in {"desc", "None", "Exception"}
                /\ UNCHANGED <<orders, cart, paidBy>>
       /\ \A s \in Slots :
             (slot[s].pc = "p_call" \/ slot'[s].pc = "p_call")
                /\ slot'[s] # slot[s] => UNCHANGED <<orders, cart, paidBy>>]_vars

\* C10 witness: a failed creation was answered 400 and the order is as created.
C10_Witness ==
    /\ last.op = "process" /\ last.method = "payos" /\ last.provider /\ last.code = 400
    /\ orders[1] = NewOrder /\ cart[Owner] = CartSize

\* C11: create_payment never lets an exception out; its result says success
\* only when the inputs were numbers and the provider answered 200 with its
\* success code and the expected data, and in every other case it says
\* failure and carries an error entry.
C11_CreatePaymentNeverRaises ==
    call.method = "create_payment"
        => /\ ~call.raised
           /\ call.success
                 => /\ call.outcome = "ok" /\ call.amountIsNumber /\ IsNumeric(call.order_id)
                    /\ call.error = "-"
           /\ ~call.success => call.error \in {"desc", "None", "Exception"}

\* C11 witness: a non-numeric order_id came back as a failure result.
C11_Witness ==
    /\ call.method = "create_payment" /\ call.order_id = "abc" /\ call.outcome = "ok"
    /\ ~call.raised /\ ~call.success /\ call.error = "Exception"

C13_NoExistenceLeak ==
    last.op = "result" /\ last.code # 0
        => /\ ~IsOwnerSession(last.caller, 1)
                 => /\ last.code = 200 /\ last.msg = "payment/result.html"
                    /\ ~last.redirect /\ last.flash = "-"
           /\ last.redirect => IsOwnerSession(last.caller, 1)

\* C14: payment_result adds a flash message or redirects only for the
\* authenticated session of the owner of the order the orderCode names.
C14_FlashAndRedirectOwnerOnly ==
    last.op = "result" /\ (last.flash # "-" \/ last.redirect)
        => FindOrder(last.ref) # {} /\ IsOwnerSession(last.caller, IntOf(last.ref))

\* C15: a "failed" or "cancel" notification for an order that is CREATED or
\* PROCESSING, answered by payment_result or committed by a correctly signed
\* webhook, leaves the order CANCELLED and every cart as it was.
C15_FailureCancelsOnBothPaths ==
    [][/\ (/\ last'.op = "result" /\ last'.code # 0 /\ FindOrder(last'.ref) # {}
           /\ last'.status \in {"failed", "cancel"}
           /\ orders[1].status \in {"CREATED", "PROCESSING"})
             => orders'[1].status = "CANCELLED" /\ cart' = cart
       /\ \A s \in Slots :
             (/\ slot[s].pc = "w_commit" /\ slot'[s].pc = "idle"
              /\ slot[s].status \in {"failed", "cancel"}
              /\ orders[1].status \in {"CREATED", "PROCESSING"})
                => orders'[1].status = "CANCELLED" /\ cart' = cart]_vars

\* C16: a redirect or a correctly signed webhook whose status is "unknown",
\* the value a redirect without status parameter gets, changes no order, no
\* payment_id and no cart: neither the step that answers it nor any step of a
\* handler that carries this status.
C16_UnknownStatusChangesNothing ==
    [][/\ (last'.op \in {"result", "webhook"} /\ last'.status = "unknown")
             => UNCHANGED <<orders, cart, paidBy>>
       /\ \A s \in Slots :
             (slot[s].status = "unknown" \/ slot'[s].status = "unknown")
                /\ slot'[s] # slot[s] => UNCHANGED <<orders, cart, paidBy>>]_vars

\* C16 witness: a redirect of unknown status for the existing order, placed
\* by cash on delivery before, was answered and the order is still PROCESSING
\* with its cart as the order left it.
C16_Witness ==
    /\ last.op = "result" /\ last.status = "unknown" /\ last.ref = "1" /\ last.code # 0
    /\ orders[1].status = "PROCESSING" /\ orders[1].payment_id = NoneTx
    /\ cart[Owner] = 0 /\ cart["u2"] = CartSize

\* C17: a client whose checksum_key is missing never produces a signature:
\* _create_signature and create_payment end in an error, return no signature
\* value, the empty string included, and send no request signed with one.
C17_NoSignatureWithoutSecret ==
    call.method \in {"create_payment", "_create_signature"} /\ Missing(call.secret)
        => /\ call.signature = NoSignature
           /\ ~call.sent
           /\ call.raised \/ call.error # "-"

\* C18: every change of the order's status follows CREATED -> PROCESSING,
\* CREATED or PROCESSING -> PAID, CREATED or PROCESSING -> CANCELLED; in
\* particular no step moves a CANCELLED order to PAID or PROCESSING.
C18_CancelledIsTerminal ==
    [][/\ orders'[1].status # orders[1].status
             => <<orders[1].status, orders'[1].status>> \in
                   {<<"CREATED", "PROCESSING">>, <<"CREATED", "PAID">>,
                    <<"PROCESSING", "PAID">>, <<"CREATED", "CANCELLED">>,
                    <<"PROCESSING", "CANCELLED">>}
       /\ orders[1].status = "CANCELLED"
             => orders'[1].status \notin {"PAID", "PROCESSING"}]_vars

\* C19: the order and the carts change only in steps of POST /process by the
\* owner or of a webhook whose signature was verified; a payment_result
\* request of an anonymous client changes neither.
C19_OnlyTrustedInputMutates ==
    [][/\ (orders' # orders \/ cart' # cart)
             => \E s \in Slots :
                   /\ slot'[s] # slot[s]
                   /\ \/ slot[s].pc \in {"p_payos_commit", "p_cod_commit", "p_cod_clear"}
                            /\ slot[s].caller = Owner
                      \/ slot[s].pc \in {"w_clear", "w_commit"}
       /\ \A s \in Slots :
             (ResultCommitStep(s) \/ ResultClearStep(s)) /\ slot[s].caller = Anonymous
                => UNCHANGED <<orders, cart>>]_vars

\* C20: a cart is emptied only in a state in which the order's new status,
\* PROCESSING or PAID, is committed.
C20_CartClearedAfterCommit ==
    [][cart'[Owner] # cart[Owner] => orders[1].status \in {"PROCESSING", "PAID"}]_vars

====
